---------------------------- MODULE Spec2Model ----------------------------
(***************************************************************************)
(* Model of scripts/build-packages.py (the containerized driver) and of    *)
(* scripts/build-packages-local.py (the local driver): the dependency      *)
(* graph, topological_sort (Kahn's algorithm with a re-sorted ready        *)
(* queue), and main(): single-package filter, dry-run, the primary pass,   *)
(* the Rust cross-compile pass of the containerized driver, the summary    *)
(* and the exit status.  The two files hold the same build_dependency_     *)
(* graph and topological_sort; they are modelled once.                     *)
(*                                                                         *)
(* Package names are modelled by the integers 1..NumPkgs; the order < on   *)
(* them is the lexicographic order sorted() uses on the names.  Token 0    *)
(* is a dependency token that survives the parser's system-package filter  *)
(* but has no control file.                                                *)
(***************************************************************************)
EXTENDS Integers, Sequences, FiniteSets, TLC

\* ------------------------------------------------------------------ bounds
\* packages with a control file when the ordering alone is explored (SpecSort)
NumPkgs == 3
\* packages with a control file when a whole run is explored (Spec)
RunPkgs == 2
\* dependency tokens one control file may declare
MaxDeps == 2
\* Package: fields one control file may hold
MaxBins == 2
\* control files when parsing and ordering are explored together (SpecParse)
ParsePkgs == 2
\* Build-Depends tokens of one control file in SpecParse
ParseDeps == 1
\* "-dev" suffixes a Build-Depends token may end with (SpecToken)
MaxDev == 2

Pkgs == 1..NumPkgs
Tokens == 0..NumPkgs
NoPackage == 0 - 1

VARIABLES
    driver,             \* "docker": build-packages.py, "local": build-packages-local.py
    manifests,          \* packages/*/control on disk: name -> Build-Depends tokens
    native,             \* get_native_docker_platform() of the host
    platform,           \* --platform
    skip_existing,      \* not --rebuild-existing
    dry_run,            \* --dry-run
    single_package,     \* --package, NoPackage when absent
    pc,                 \* position in main()
    graph,              \* graph as held (and mutated) by the program
    in_degree_reverse,
    queue,
    result,
    prev_result,        \* result of the previous run over the same manifests
    build_order,
    idx,                \* 1-based position of the running for loop
    container_id,       \* handle of the primary container, 0 when none
    cross_container_id, \* handle of the current cross container, 0 when none
    succeeded,
    failed,
    skipped,
    rust_packages,
    rust_packages_in_order,
    target_platforms,   \* cross targets still to be iterated
    cross_platform,     \* cross target of the running cross pass
    exc,                \* an exception is propagating out of a try block
    exit_code,          \* -1 while running
    markers,            \* rust_cross_compile marker files as observed so far
    last_check,         \* the last evaluation of the existence filter
    starts,             \* successful start_build_container calls so far
    start_failures,     \* start_build_container calls that returned None
    stop_calls,         \* container handles passed to stop_build_container
    stop_failures,      \* handles whose "docker stop" failed: the container is still up
    builds,             \* build_package invocations, in order
    summary,            \* TRUE once the build summary has been printed
    diagnostic,         \* the cycle report: remaining package -> dependencies listed
    timeout_seconds,    \* --timeout
    output_file,        \* TRUE when --log-file is given
    bp,                 \* one activation of build_package
    control_files,      \* packages/*/control as text: directory -> fields of the file
    parsed,             \* parse_control_file's return value for every control file
    first_parsed,       \* parsed of the first pass, once the files were rewritten from it
    first_run           \* what the containerized driver did, once the local driver is
                        \* run on the same inputs

sortvars == <<graph, in_degree_reverse, queue, result>>
argvars == <<driver, manifests, native, platform, skip_existing, dry_run, single_package>>
passvars == <<build_order, idx, container_id, cross_container_id, succeeded, failed,
              skipped, rust_packages, rust_packages_in_order, target_platforms,
              cross_platform, exc, markers, last_check, starts, start_failures,
              stop_calls, stop_failures, builds, summary>>
buildvars == <<timeout_seconds, output_file, bp>>
parsevars == <<control_files, parsed, first_parsed>>
vars == <<driver, manifests, native, platform, skip_existing, dry_run, single_package, pc,
          graph, in_degree_reverse, queue, result, prev_result, build_order, idx,
          container_id, cross_container_id, succeeded, failed, skipped,
          rust_packages, rust_packages_in_order, target_platforms, cross_platform,
          exc, exit_code, markers, last_check, starts, start_failures, stop_calls, stop_failures,
          builds, summary, diagnostic, timeout_seconds, output_file, bp, control_files,
          parsed, first_parsed, first_run>>

\* ------------------------------------------------------------ sequences
Range(s) == {s[i] : i \in DOMAIN s}

\* every enumeration of the finite set S: the orders a Python set may iterate in
Perms(S) == {s \in [1..Cardinality(S) -> S] : Range(s) = S}

RECURSIVE Insert(_, _)
Insert(x, s) ==
    IF s = <<>> THEN <<x>>
    ELSE IF x <= Head(s) THEN <<x>> \o s
    ELSE <<Head(s)>> \o Insert(x, Tail(s))

RECURSIVE Sorted(_)
Sorted(s) == IF s = <<>> THEN <<>> ELSE Insert(Head(s), Sorted(Tail(s)))

Count(s, x) == Cardinality({i \in DOMAIN s : s[i] = x})

Pos(s, x) == CHOOSE i \in DOMAIN s : s[i] = x


\* ------------------------------------------------- inputs of a run
Platforms == {"arm64", "amd64", "riscv64"}

\* main: docker_platform = f"linux/{platform}"
DockerPlatform(p) == <<"linux", p>>

\* the values get_native_docker_platform can return
NativePlatforms == {DockerPlatform("arm64"), DockerPlatform("amd64")}

DepSets(T) == {d \in SUBSET T : Cardinality(d) <= MaxDeps}

\* dependency sets as parse_control_file returns them: tokens may name no manifest
RawGraphs == [Pkgs -> DepSets(Tokens)]

\* the manifests of a whole run: every dependency token names a manifest
RunGraphs == [1..RunPkgs -> DepSets(1..RunPkgs)]

\* ------------------------------------------------- parse_control_file
\* A Build-Depends token is modelled by its parts: the name is base followed by
\* devs times the suffix "-dev", and ver tells whether a version constraint in
\* parentheses follows.  Gcc and Zlib1g are name stems of the system set.
Gcc == 0 - 2
Zlib1g == 0 - 3

\* system_packages, two of its members: 'gcc' and 'zlib1g-dev'
SystemPackages == {[base |-> Gcc, devs |-> 0], [base |-> Zlib1g, devs |-> 1]}

RawTokens(bases, maxdev, vers) == [base : bases, devs : 0..maxdev, ver : vers]

ControlFiles(dirs, tokens, n) ==
    [dirs -> [source : BOOLEAN,
              build_depends : {d \in SUBSET tokens : Cardinality(d) <= n}]]

StripVersion_Keep(dep) == dep

\* dep = re.sub(r'\s*\([^)]*\)', '', dep)
StripVersion(dep) == [dep EXCEPT !.ver = FALSE]

\* dep not in system_packages
InSystemPackages(dep) == [base |-> dep.base, devs |-> dep.devs] \in SystemPackages

\* if dep.endswith('-dev'): dep = dep[:-4]
StripDev(dep) == IF dep.devs > 0 THEN [dep EXCEPT !.devs = dep.devs - 1] ELSE dep

\* one iteration of "for dep in build_deps.split(',')": what it adds to deps
ParseDep(token) ==
    LET dep == StripVersion(token)
    IN IF InSystemPackages(dep) THEN {} ELSE {StripDev(dep)}

PackageName_Directory(d, file) == d

\* source_match.group(1), None without a Source: field; the file of
\* directory d names package d
PackageName(d, file) == IF file.source THEN d ELSE NoPackage

\* parse_control_file: (package_name, deps), (None, set()) without a Source: field
ParseControlFile(d, file) ==
    IF PackageName(d, file) = NoPackage
    THEN [package_name |-> NoPackage, deps |-> {}]
    ELSE [package_name |-> PackageName(d, file),
          deps |-> UNION {ParseDep(t) : t \in file.build_depends}]

\* a parsed dependency as a graph token: the package of that name, or 0 for a
\* name no control file of the model has
GraphToken(dep) == IF dep.devs = 0 /\ dep.base >= 1 THEN dep.base ELSE 0

\* the loop of build_dependency_graph: graph[package_name] = deps if package_name
GraphOf(pf) ==
    [p \in {pf[d].package_name : d \in {x \in DOMAIN pf : pf[x].package_name # NoPackage}}
        |-> {GraphToken(dep) : dep \in pf[p].deps}]

\* ------------------------------------------------- topological_sort
\* all_nodes = set(graph.keys())
AllNodes(g) == DOMAIN g

FilterDeps_Identity(g) == g

\* graph[package] = {dep for dep in graph[package] if dep in all_nodes}
FilterDeps(g) == [p \in DOMAIN g |-> {dep \in g[p] : dep \in AllNodes(g)}]

\* reverse_graph[dep].add(node) for every node and every dep of it
ReverseGraph(g) == [dep \in AllNodes(g) |-> {node \in DOMAIN g : dep \in g[node]}]

InDegreeReverse_Zero(g) == [node \in AllNodes(g) |-> 0]

\* in_degree_reverse = {node: len(graph[node]) for node in all_nodes}
InDegreeReverse(g) == [node \in AllNodes(g) |-> Cardinality(g[node])]

\* the nodes the initial queue is built from
InitiallyReady(g, deg) == {node \in AllNodes(g) : deg[node] = 0}

SortQueue_Unsorted(q) == q

\* queue = deque(sorted(queue))
SortQueue(q) == Sorted(q)

\* in_degree_reverse[dependent] -= 1 for every dependent of node
Decrement(deg, g, node) ==
    [d \in DOMAIN deg |-> IF d \in ReverseGraph(g)[node] THEN deg[d] - 1 ELSE deg[d]]

NewlyReady_Any(deg, g, node) == ReverseGraph(g)[node]

\* the dependents whose count reached 0 in this iteration
NewlyReady(deg, g, node) ==
    {d \in ReverseGraph(g)[node] : Decrement(deg, g, node)[d] = 0}

CycleDetected_Never(res, g) == FALSE

\* if len(result) != len(all_nodes)
CycleDetected(res, g) == Len(res) # Cardinality(AllNodes(g))

\* ------------------------------------------------- main: helpers
\* is_native_platform(docker_platform)
IsNativePlatform(docker_platform) == native = docker_platform

PackageAt_First(order, i) == order[1]

\* for idx, package_name in enumerate(order, 1): the package of iteration idx
PackageAt(order, i) == order[i]

\* a name in succeeded/failed/skipped: package_name in the primary pass
Entry(p) == <<p, "">>

\* f"{package_name} ({cross_platform})" in the cross-compile pass
CrossEntry(p, cp) == <<p, cp>>

\* get_binary_package_names: the Package: fields, or [package_name] when none
BinaryPackages(n) == 1..n

NoCheck == [pkg |-> 0, platform |-> "", bins |-> {}, found |-> {}, skip |-> FALSE]

ExistingDebs_All(bins, found) == bins \subseteq found

ExistingDebs_UnlessRebuilt(bins, found) == found # {} /\ builds = <<>>

\* existing_debs is non-empty: some binary package has a matching .deb
ExistingDebs(bins, found) == found # {}

\* the marker file of p as uses_rust_cross_compile may find it
MarkerReads(p) == IF markers[p] = "unread" THEN {"yes", "no"} ELSE {markers[p]}

TargetPlatforms_Same(pf) == <<pf>>

\* target_platforms after the if/elif/else on platform
TargetPlatforms(pf) ==
    IF pf = "arm64" THEN <<"amd64">>
    ELSE IF pf = "amd64" THEN <<"arm64">>
    ELSE <<>>

AfterPrimaryFailure_Continue == "primary_loop"

\* break after a failed build in the primary pass
AfterPrimaryFailure == "primary_finally"

AfterLocalFailure_Continue == "local_loop"

\* break after a failed build in the local driver
AfterLocalFailure == "summary"

\* the cross-compile loop has no break after a failed build
AfterCrossFailure == "cross_loop"

SecondaryPassRuns_Always == TRUE

\* if is_native_platform(docker_platform), evaluated after the primary pass
SecondaryPassRuns == IsNativePlatform(DockerPlatform(platform))

DeferInPrimary_Never(m) == FALSE

\* uses_rust_cross_compile(...) and not is_native_platform(docker_platform)
DeferInPrimary(m) == m = "yes" /\ ~IsNativePlatform(DockerPlatform(platform))

CheckExisting_Always == TRUE

\* if skip_existing
CheckExisting == skip_existing

IsKnownPackage_Always(sp, order) == TRUE

\* single_package in build_order
IsKnownPackage(sp, order) == sp \in Range(order)

DryRunRequested_Never == FALSE

\* if dry_run
DryRunRequested == dry_run

ExitStatus_Zero(f) == 0

\* sys.exit(1) if failed else sys.exit(0), after the summary
ExitStatus(f) == IF f # <<>> THEN 1 ELSE 0

FinallyStops_OnlyOnSuccess(c, e) == IF e THEN <<>> ELSE <<c>>

\* finally: stop_build_container(c), whether or not an exception e is in flight
FinallyStops(c, e) == <<c>>

\* stop_build_container: "docker stop" succeeds, or raises CalledProcessError,
\* which is caught and logged as a warning
StopOutcomes == BOOLEAN

\* the containers that are up: started, and not stopped by a "docker stop" that
\* succeeded
Running == {c \in 1..starts : Count(stop_calls, c) = 0 \/ c \in stop_failures}

\* the handles docker run has returned and stop_build_container has not been given
Alive == {c \in 1..starts : Count(stop_calls, c) = 0}

Build(p, pf, c, pass, ok) ==
    [pkg |-> p, platform |-> pf, container |-> c, pass |-> pass, ok |-> ok]

Remaining_All(res, g) == AllNodes(g)

\* remaining = all_nodes - set(result)
Remaining(res, g) == AllNodes(g) \ Range(res)

CycleReport_Unsatisfied(res, g) ==
    [pkg \in Remaining(res, g) |-> g[pkg] \cap Remaining(res, g)]

\* deps = graph.get(pkg, set()), printed for every remaining package
CycleReport(res, g) == [pkg \in Remaining(res, g) |-> g[pkg]]

\* ------------------------------------------------- build_package
\* --timeout values explored, in units of the model's clock
MaxTimeout == 2

\* how long the clock is followed
Horizon == MaxTimeout + 1

\* exit statuses of the build script; 124 and 143 are those of timeout(1) and SIGTERM
ReturnCodes == {0, 1, 124, 143}

Idle == [pc |-> "idle", elapsed |-> 0, killed |-> FALSE, returncode |-> 0 - 1,
         report |-> "", ret |-> FALSE]

\* a build_package call as both drivers make it: the package and the result
Decisions(b) == [i \in DOMAIN b |-> <<b[i].pkg, b[i].ok>>]

\* no run of the containerized driver has been recorded
NoRun == [done |-> FALSE, build_order |-> <<>>, succeeded |-> <<>>, failed |-> <<>>,
          skipped |-> <<>>, decisions |-> <<>>, exit_code |-> 0 - 1,
          start_failures |-> 0]

\* the disk and the build script answer the local driver as they answered the
\* containerized driver: a package built there is not found built and builds with
\* the same result, a package skipped there is found built
SameAnswers ==
    /\ \A i \in DOMAIN builds : \A j \in DOMAIN first_run.decisions :
          builds[i].pkg = first_run.decisions[j][1]
              => builds[i].ok = first_run.decisions[j][2]
    /\ \A i \in DOMAIN builds : Entry(builds[i].pkg) \notin Range(first_run.skipped)
    /\ \A i \in DOMAIN skipped : \A j \in DOMAIN first_run.decisions :
          skipped[i][1] # first_run.decisions[j][1]

\* ------------------------------------------------- initial states
FreshButMarkers ==
    /\ pc = "build_graph"
    /\ graph = <<>>
    /\ in_degree_reverse = <<>>
    /\ queue = <<>>
    /\ result = <<>>
    /\ prev_result = <<>>
    /\ build_order = <<>>
    /\ idx = 0
    /\ container_id = 0
    /\ cross_container_id = 0
    /\ succeeded = <<>>
    /\ failed = <<>>
    /\ skipped = <<>>
    /\ rust_packages = <<>>
    /\ rust_packages_in_order = <<>>
    /\ target_platforms = <<>>
    /\ cross_platform = ""
    /\ exc = FALSE
    /\ exit_code = 0 - 1
    /\ last_check = NoCheck
    /\ starts = 0
    /\ start_failures = 0
    /\ stop_calls = <<>>
    /\ stop_failures = {}
    /\ builds = <<>>
    /\ summary = FALSE
    /\ diagnostic = <<>>
    /\ bp = Idle
    /\ parsed = <<>>
    /\ first_parsed = <<>>
    /\ first_run = NoRun

\* the state main() starts in; no marker file has been looked for yet
Fresh ==
    /\ FreshButMarkers
    /\ markers = [p \in Pkgs |-> "unread"]

\* main's defaults, no command-line flag given
InitSort ==
    /\ control_files = <<>>
    /\ driver = "docker"
    /\ manifests \in RawGraphs
    /\ native = DockerPlatform("arm64")
    /\ platform = "arm64"
    /\ skip_existing = TRUE
    /\ dry_run = FALSE
    /\ single_package = NoPackage
    /\ timeout_seconds = MaxTimeout
    /\ output_file = FALSE
    /\ Fresh

Init ==
    /\ control_files = <<>>
    /\ driver \in {"docker", "local"}
    /\ manifests \in RunGraphs
    /\ native \in NativePlatforms
    /\ platform \in Platforms
    /\ skip_existing \in BOOLEAN
    /\ dry_run \in BOOLEAN
    /\ single_package \in {NoPackage, 0} \cup (1..RunPkgs)
    /\ timeout_seconds = MaxTimeout
    /\ output_file = FALSE
    /\ Fresh

\* ------------------------------------------------- actions: ordering
\* graph, workflow_map = build_dependency_graph(packages_dir, workflows_dir)
BuildDependencyGraph ==
    /\ pc = "build_graph"
    /\ graph' = manifests
    /\ pc' = "topo_init"
    /\ UNCHANGED <<first_run, parsevars, buildvars, diagnostic, argvars, in_degree_reverse, queue, result, prev_result,
                   passvars, exit_code>>

\* topological_sort up to the while loop
TopoInit ==
    /\ pc = "topo_init"
    /\ graph' = FilterDeps(graph)
    /\ in_degree_reverse' = InDegreeReverse(graph')
    /\ queue' \in Perms(InitiallyReady(graph', in_degree_reverse'))
    /\ result' = <<>>
    /\ pc' = "topo_loop"
    /\ UNCHANGED <<first_run, parsevars, buildvars, diagnostic, argvars, prev_result, passvars, exit_code>>

\* one iteration of "while queue"
TopoLoop ==
    /\ pc = "topo_loop"
    /\ queue # <<>>
    /\ LET sorted == SortQueue(queue)
           node == Head(sorted)
       IN /\ result' = Append(result, node)
          /\ in_degree_reverse' = Decrement(in_degree_reverse, graph, node)
          /\ \E appended \in Perms(NewlyReady(in_degree_reverse, graph, node)) :
                queue' = Tail(sorted) \o appended
    /\ UNCHANGED <<first_run, parsevars, buildvars, diagnostic, argvars, pc, graph, prev_result, passvars, exit_code>>

\* the cycle check after the loop: sys.exit(1)
TopoCycleExit ==
    /\ pc = "topo_loop"
    /\ queue = <<>>
    /\ CycleDetected(result, graph)
    /\ diagnostic' = CycleReport(result, graph)
    /\ pc' = "exit"
    /\ exit_code' = 1
    /\ UNCHANGED <<first_run, parsevars, buildvars, argvars, sortvars, prev_result, passvars>>

\* return result; build_order = topological_sort(graph)
TopoReturn ==
    /\ pc = "topo_loop"
    /\ queue = <<>>
    /\ ~CycleDetected(result, graph)
    /\ build_order' = result
    /\ pc' = "single_filter"
    /\ UNCHANGED <<first_run, parsevars, buildvars, diagnostic, argvars, sortvars, prev_result, exit_code, idx, container_id,
                   cross_container_id, succeeded, failed, skipped, rust_packages,
                   rust_packages_in_order, target_platforms, cross_platform, exc,
                   markers, last_check, starts, start_failures, stop_calls, stop_failures, builds,
                   summary>>

\* the script is run again over the same manifests
Rerun ==
    /\ pc = "single_filter"
    /\ prev_result = <<>>
    /\ prev_result' = build_order
    /\ pc' = "build_graph"
    /\ graph' = <<>>
    /\ in_degree_reverse' = <<>>
    /\ queue' = <<>>
    /\ result' = <<>>
    /\ build_order' = <<>>
    /\ UNCHANGED <<first_run, parsevars, buildvars, diagnostic, argvars, exit_code, idx, container_id,
                   cross_container_id, succeeded, failed, skipped, rust_packages,
                   rust_packages_in_order, target_platforms, cross_platform, exc,
                   markers, last_check, starts, start_failures, stop_calls, stop_failures, builds,
                   summary>>

NextSort ==
    \/ BuildDependencyGraph
    \/ TopoInit
    \/ TopoLoop
    \/ TopoCycleExit
    \/ TopoReturn
    \/ Rerun

SpecSort == InitSort /\ [][NextSort]_vars

\* the interpreter keeps executing the one thread of the script
SpecSortFair == SpecSort /\ WF_vars(NextSort)


\* ------------------------------------------------- actions: main
\* if single_package: ... not in build_order: sys.exit(1)
SingleUnknown ==
    /\ pc = "single_filter"
    /\ single_package # NoPackage
    /\ ~IsKnownPackage(single_package, build_order)
    /\ pc' = "exit"
    /\ exit_code' = 1
    /\ UNCHANGED <<first_run, parsevars, buildvars, diagnostic, argvars, sortvars, prev_result, passvars>>

\* build_order = [single_package], or the full order
SingleFilter ==
    /\ pc = "single_filter"
    /\ \/ /\ single_package # NoPackage
          /\ IsKnownPackage(single_package, build_order)
          /\ build_order' = <<single_package>>
       \/ /\ single_package = NoPackage
          /\ build_order' = build_order
    /\ pc' = "dry_run"
    /\ UNCHANGED <<first_run, parsevars, buildvars, diagnostic, argvars, sortvars, prev_result, exit_code, idx, container_id,
                   cross_container_id, succeeded, failed, skipped, rust_packages,
                   rust_packages_in_order, target_platforms, cross_platform, exc,
                   markers, last_check, starts, start_failures, stop_calls, stop_failures, builds,
                   summary>>

\* if dry_run: sys.exit(0)
DryRunExit ==
    /\ pc = "dry_run"
    /\ DryRunRequested
    /\ pc' = "exit"
    /\ exit_code' = 0
    /\ UNCHANGED <<first_run, parsevars, buildvars, diagnostic, argvars, sortvars, prev_result, passvars>>

\* container_id = start_build_container(...); the result lists are created
StartContainer ==
    /\ pc = "dry_run"
    /\ driver = "docker"
    /\ ~DryRunRequested
    /\ \/ /\ starts' = starts + 1
          /\ container_id' = starts + 1
          /\ idx' = 1
          /\ pc' = "primary_loop"
          /\ UNCHANGED <<start_failures, exit_code>>
       \/ /\ start_failures' = start_failures + 1
          /\ pc' = "exit"
          /\ exit_code' = 1
          /\ UNCHANGED <<starts, container_id, idx>>
    /\ UNCHANGED <<first_run, parsevars, buildvars, diagnostic, argvars, sortvars, prev_result, build_order, cross_container_id,
                   succeeded, failed, skipped, rust_packages, rust_packages_in_order,
                   target_platforms, cross_platform, exc, markers, last_check,
                   stop_calls, stop_failures, builds, summary>>

\* an iteration that defers a Rust cross-compile package
PrimaryDefer ==
    /\ pc = "primary_loop"
    /\ idx <= Len(build_order)
    /\ LET p == PackageAt(build_order, idx) IN
       \E m \in MarkerReads(p) :
          /\ DeferInPrimary(m)
          /\ markers' = [markers EXCEPT ![p] = m]
          /\ rust_packages' = Append(rust_packages, p)
          /\ skipped' = Append(skipped, Entry(p))
    /\ idx' = idx + 1
    /\ UNCHANGED <<first_run, parsevars, buildvars, diagnostic, argvars, sortvars, prev_result, pc, exit_code, build_order,
                   container_id, cross_container_id, succeeded, failed,
                   rust_packages_in_order, target_platforms, cross_platform, exc,
                   last_check, starts, start_failures, stop_calls, stop_failures, builds, summary>>

\* an iteration that skips a package whose .deb files exist
PrimarySkip ==
    /\ pc = "primary_loop"
    /\ idx <= Len(build_order)
    /\ LET p == PackageAt(build_order, idx) IN
       \E m \in MarkerReads(p), n \in 1..MaxBins :
       \E found \in SUBSET BinaryPackages(n) :
          /\ ~DeferInPrimary(m)
          /\ CheckExisting
          /\ ExistingDebs(BinaryPackages(n), found)
          /\ markers' = [markers EXCEPT ![p] = m]
          /\ last_check' = [pkg |-> p, platform |-> platform,
                            bins |-> BinaryPackages(n), found |-> found, skip |-> TRUE]
          /\ skipped' = Append(skipped, Entry(p))
    /\ idx' = idx + 1
    /\ UNCHANGED <<first_run, parsevars, buildvars, diagnostic, argvars, sortvars, prev_result, pc, exit_code, build_order,
                   container_id, cross_container_id, succeeded, failed, rust_packages,
                   rust_packages_in_order, target_platforms, cross_platform, exc,
                   starts, start_failures, stop_calls, stop_failures, builds, summary>>

\* an iteration that reaches build_package(...)
PrimaryBuild ==
    /\ pc = "primary_loop"
    /\ idx <= Len(build_order)
    /\ LET p == PackageAt(build_order, idx) IN
       \E m \in MarkerReads(p), n \in 1..MaxBins, ok \in BOOLEAN :
       \E found \in SUBSET BinaryPackages(n) :
          /\ ~DeferInPrimary(m)
          /\ markers' = [markers EXCEPT ![p] = m]
          /\ IF CheckExisting
             THEN /\ ~ExistingDebs(BinaryPackages(n), found)
                  /\ last_check' = [pkg |-> p, platform |-> platform,
                                    bins |-> BinaryPackages(n), found |-> found,
                                    skip |-> FALSE]
             ELSE /\ n = 1
                  /\ found = {}
                  /\ last_check' = last_check
          /\ builds' = Append(builds, Build(p, platform, container_id, "primary", ok))
          /\ IF ok
             THEN /\ succeeded' = Append(succeeded, Entry(p))
                  /\ idx' = idx + 1
                  /\ UNCHANGED <<failed, pc>>
             ELSE /\ failed' = Append(failed, Entry(p))
                  /\ pc' = AfterPrimaryFailure
                  /\ idx' = IF pc' = "primary_loop" THEN idx + 1 ELSE idx
                  /\ UNCHANGED succeeded
    /\ UNCHANGED <<first_run, parsevars, buildvars, diagnostic, argvars, sortvars, prev_result, exit_code, build_order,
                   container_id, cross_container_id, skipped, rust_packages,
                   rust_packages_in_order, target_platforms, cross_platform, exc,
                   starts, start_failures, stop_calls, stop_failures, summary>>

\* an exception escapes the body of the primary try block
PrimaryRaise ==
    /\ pc = "primary_loop"
    /\ idx <= Len(build_order)
    /\ exc' = TRUE
    /\ pc' = "primary_finally"
    /\ UNCHANGED <<first_run, parsevars, buildvars, diagnostic, argvars, sortvars, prev_result, exit_code, build_order, idx,
                   container_id, cross_container_id, succeeded, failed, skipped,
                   rust_packages, rust_packages_in_order, target_platforms,
                   cross_platform, markers, last_check, starts, start_failures,
                   stop_calls, stop_failures, builds, summary>>

\* the for loop of the primary pass is exhausted
PrimaryDone ==
    /\ pc = "primary_loop"
    /\ idx > Len(build_order)
    /\ pc' = "primary_finally"
    /\ UNCHANGED <<first_run, parsevars, buildvars, diagnostic, argvars, sortvars, prev_result, exit_code, passvars>>

\* finally: stop_build_container(container_id)
PrimaryFinally ==
    /\ pc = "primary_finally"
    /\ stop_calls' = stop_calls \o FinallyStops(container_id, exc)
    /\ \E stopped \in StopOutcomes :
          stop_failures' = stop_failures \cup
              (IF stopped THEN {} ELSE Range(FinallyStops(container_id, exc)))
    /\ IF exc
       THEN /\ pc' = "exit"
            /\ exit_code' = 1
       ELSE /\ pc' = "cross_check"
            /\ UNCHANGED exit_code
    /\ UNCHANGED <<first_run, parsevars, buildvars, diagnostic, argvars, sortvars, prev_result, build_order, idx, container_id,
                   cross_container_id, succeeded, failed, skipped, rust_packages,
                   rust_packages_in_order, target_platforms, cross_platform, exc,
                   markers, last_check, starts, start_failures, builds, summary>>

\* if is_native_platform(docker_platform): rust_packages_in_order, target_platforms
CrossCheck ==
    /\ pc = "cross_check"
    /\ IF SecondaryPassRuns
       THEN \E mk \in [Pkgs -> {"yes", "no", "unread"}] :
              /\ \A p \in Pkgs :
                    IF p \in Range(build_order)
                    THEN mk[p] \in MarkerReads(p)
                    ELSE mk[p] = markers[p]
              /\ markers' = mk
              /\ rust_packages_in_order' =
                    SelectSeq(build_order, LAMBDA pkg : mk[pkg] = "yes")
              /\ IF rust_packages_in_order' # <<>>
                 THEN /\ target_platforms' = TargetPlatforms(platform)
                      /\ pc' = "cross_start"
                 ELSE /\ pc' = "summary"
                      /\ UNCHANGED target_platforms
       ELSE /\ pc' = "summary"
            /\ UNCHANGED <<markers, rust_packages_in_order, target_platforms>>
    /\ UNCHANGED <<first_run, parsevars, buildvars, diagnostic, argvars, sortvars, prev_result, exit_code, build_order, idx,
                   container_id, cross_container_id, succeeded, failed, skipped,
                   rust_packages, cross_platform, exc, last_check, starts,
                   start_failures, stop_calls, stop_failures, builds, summary>>

\* for cross_platform, ... in target_platforms: start_build_container(...)
CrossStart ==
    /\ pc = "cross_start"
    /\ target_platforms # <<>>
    /\ cross_platform' = Head(target_platforms)
    /\ target_platforms' = Tail(target_platforms)
    /\ \/ /\ starts' = starts + 1
          /\ cross_container_id' = starts + 1
          /\ idx' = 1
          /\ pc' = "cross_loop"
          /\ UNCHANGED start_failures
       \/ /\ start_failures' = start_failures + 1
          /\ UNCHANGED <<starts, cross_container_id, idx, pc>>
    /\ UNCHANGED <<first_run, parsevars, buildvars, diagnostic, argvars, sortvars, prev_result, exit_code, build_order,
                   container_id, succeeded, failed, skipped, rust_packages,
                   rust_packages_in_order, exc, markers, last_check, stop_calls, stop_failures,
                   builds, summary>>

\* the loop over target_platforms is exhausted
CrossTargetsDone ==
    /\ pc = "cross_start"
    /\ target_platforms = <<>>
    /\ pc' = "summary"
    /\ UNCHANGED <<first_run, parsevars, buildvars, diagnostic, argvars, sortvars, prev_result, exit_code, passvars>>

\* a cross-compile iteration that skips a package whose .deb files exist
CrossSkip ==
    /\ pc = "cross_loop"
    /\ idx <= Len(rust_packages_in_order)
    /\ LET p == PackageAt(rust_packages_in_order, idx) IN
       \E n \in 1..MaxBins :
       \E found \in SUBSET BinaryPackages(n) :
          /\ CheckExisting
          /\ ExistingDebs(BinaryPackages(n), found)
          /\ last_check' = [pkg |-> p, platform |-> cross_platform,
                            bins |-> BinaryPackages(n), found |-> found, skip |-> TRUE]
    /\ idx' = idx + 1
    /\ UNCHANGED <<first_run, parsevars, buildvars, diagnostic, argvars, sortvars, prev_result, pc, exit_code, build_order,
                   container_id, cross_container_id, succeeded, failed, skipped,
                   rust_packages, rust_packages_in_order, target_platforms,
                   cross_platform, exc, markers, starts, start_failures, stop_calls, stop_failures,
                   builds, summary>>

\* a cross-compile iteration that reaches build_package(...)
CrossBuild ==
    /\ pc = "cross_loop"
    /\ idx <= Len(rust_packages_in_order)
    /\ LET p == PackageAt(rust_packages_in_order, idx) IN
       \E n \in 1..MaxBins, ok \in BOOLEAN :
       \E found \in SUBSET BinaryPackages(n) :
          /\ IF CheckExisting
             THEN /\ ~ExistingDebs(BinaryPackages(n), found)
                  /\ last_check' = [pkg |-> p, platform |-> cross_platform,
                                    bins |-> BinaryPackages(n), found |-> found,
                                    skip |-> FALSE]
             ELSE /\ n = 1
                  /\ found = {}
                  /\ last_check' = last_check
          /\ builds' = Append(builds,
                              Build(p, cross_platform, cross_container_id, "cross", ok))
          /\ IF ok
             THEN /\ succeeded' = Append(succeeded, CrossEntry(p, cross_platform))
                  /\ idx' = idx + 1
                  /\ UNCHANGED <<failed, pc>>
             ELSE /\ failed' = Append(failed, CrossEntry(p, cross_platform))
                  /\ pc' = AfterCrossFailure
                  /\ idx' = IF pc' = "cross_loop" THEN idx + 1 ELSE idx
                  /\ UNCHANGED succeeded
    /\ UNCHANGED <<first_run, parsevars, buildvars, diagnostic, argvars, sortvars, prev_result, exit_code, build_order,
                   container_id, cross_container_id, skipped, rust_packages,
                   rust_packages_in_order, target_platforms, cross_platform, exc,
                   markers, starts, start_failures, stop_calls, stop_failures, summary>>

\* an exception escapes the body of the cross-compile try block
CrossRaise ==
    /\ pc = "cross_loop"
    /\ idx <= Len(rust_packages_in_order)
    /\ exc' = TRUE
    /\ pc' = "cross_finally"
    /\ UNCHANGED <<first_run, parsevars, buildvars, diagnostic, argvars, sortvars, prev_result, exit_code, build_order, idx,
                   container_id, cross_container_id, succeeded, failed, skipped,
                   rust_packages, rust_packages_in_order, target_platforms,
                   cross_platform, markers, last_check, starts, start_failures,
                   stop_calls, stop_failures, builds, summary>>

\* the for loop of the cross-compile pass is exhausted
CrossDone ==
    /\ pc = "cross_loop"
    /\ idx > Len(rust_packages_in_order)
    /\ pc' = "cross_finally"
    /\ UNCHANGED <<first_run, parsevars, buildvars, diagnostic, argvars, sortvars, prev_result, exit_code, passvars>>

\* finally: stop_build_container(cross_container_id)
CrossFinally ==
    /\ pc = "cross_finally"
    /\ stop_calls' = stop_calls \o FinallyStops(cross_container_id, exc)
    /\ \E stopped \in StopOutcomes :
          stop_failures' = stop_failures \cup
              (IF stopped THEN {} ELSE Range(FinallyStops(cross_container_id, exc)))
    /\ IF exc
       THEN /\ pc' = "exit"
            /\ exit_code' = 1
       ELSE /\ pc' = "cross_start"
            /\ UNCHANGED exit_code
    /\ UNCHANGED <<first_run, parsevars, buildvars, diagnostic, argvars, sortvars, prev_result, build_order, idx, container_id,
                   cross_container_id, succeeded, failed, skipped, rust_packages,
                   rust_packages_in_order, target_platforms, cross_platform, exc,
                   markers, last_check, starts, start_failures, builds, summary>>

\* ------------------------------------------------- actions: local driver
\* dry_run is off: succeeded, failed, skipped are created, the loop begins
LocalStart ==
    /\ pc = "dry_run"
    /\ driver = "local"
    /\ ~DryRunRequested
    /\ idx' = 1
    /\ pc' = "local_loop"
    /\ UNCHANGED <<first_run, parsevars, buildvars, diagnostic, argvars, sortvars, prev_result, exit_code, build_order,
                   container_id, cross_container_id, succeeded, failed, skipped,
                   rust_packages, rust_packages_in_order, target_platforms,
                   cross_platform, exc, markers, last_check, starts, start_failures,
                   stop_calls, stop_failures, builds, summary>>

\* an iteration that skips a package whose .deb files exist
LocalSkip ==
    /\ pc = "local_loop"
    /\ idx <= Len(build_order)
    /\ LET p == PackageAt(build_order, idx) IN
       \E n \in 1..MaxBins :
       \E found \in SUBSET BinaryPackages(n) :
          /\ CheckExisting
          /\ ExistingDebs(BinaryPackages(n), found)
          /\ last_check' = [pkg |-> p, platform |-> platform,
                            bins |-> BinaryPackages(n), found |-> found, skip |-> TRUE]
          /\ skipped' = Append(skipped, Entry(p))
    /\ idx' = idx + 1
    /\ UNCHANGED <<first_run, parsevars, buildvars, diagnostic, argvars, sortvars, prev_result, pc, exit_code, build_order,
                   container_id, cross_container_id, succeeded, failed, rust_packages,
                   rust_packages_in_order, target_platforms, cross_platform, exc,
                   markers, starts, start_failures, stop_calls, stop_failures, builds, summary>>

\* an iteration that reaches build_package(...)
LocalBuild ==
    /\ pc = "local_loop"
    /\ idx <= Len(build_order)
    /\ LET p == PackageAt(build_order, idx) IN
       \E n \in 1..MaxBins, ok \in BOOLEAN :
       \E found \in SUBSET BinaryPackages(n) :
          /\ IF CheckExisting
             THEN /\ ~ExistingDebs(BinaryPackages(n), found)
                  /\ last_check' = [pkg |-> p, platform |-> platform,
                                    bins |-> BinaryPackages(n), found |-> found,
                                    skip |-> FALSE]
             ELSE /\ n = 1
                  /\ found = {}
                  /\ last_check' = last_check
          /\ builds' = Append(builds, Build(p, platform, 0, "primary", ok))
          /\ IF ok
             THEN /\ succeeded' = Append(succeeded, Entry(p))
                  /\ idx' = idx + 1
                  /\ UNCHANGED <<failed, pc>>
             ELSE /\ failed' = Append(failed, Entry(p))
                  /\ pc' = AfterLocalFailure
                  /\ idx' = IF pc' = "local_loop" THEN idx + 1 ELSE idx
                  /\ UNCHANGED succeeded
    /\ UNCHANGED <<first_run, parsevars, buildvars, diagnostic, argvars, sortvars, prev_result, exit_code, build_order,
                   container_id, cross_container_id, skipped, rust_packages,
                   rust_packages_in_order, target_platforms, cross_platform, exc,
                   markers, starts, start_failures, stop_calls, stop_failures, summary>>

\* the for loop of the local driver is exhausted
LocalDone ==
    /\ pc = "local_loop"
    /\ idx > Len(build_order)
    /\ pc' = "summary"
    /\ UNCHANGED <<first_run, parsevars, buildvars, diagnostic, argvars, sortvars, prev_result, exit_code, passvars>>

\* ------------------------------------------------- actions: summary
\* Build Summary; sys.exit(1) if failed else sys.exit(0)
Summary ==
    /\ pc = "summary"
    /\ summary' = TRUE
    /\ exit_code' = ExitStatus(failed)
    /\ pc' = "exit"
    /\ UNCHANGED <<first_run, parsevars, buildvars, diagnostic, argvars, sortvars, prev_result, build_order, idx, container_id,
                   cross_container_id, succeeded, failed, skipped, rust_packages,
                   rust_packages_in_order, target_platforms, cross_platform, exc,
                   markers, last_check, starts, start_failures, stop_calls, stop_failures, builds>>

Next ==
    \/ BuildDependencyGraph
    \/ TopoInit
    \/ TopoLoop
    \/ TopoCycleExit
    \/ TopoReturn
    \/ SingleUnknown
    \/ SingleFilter
    \/ DryRunExit
    \/ StartContainer
    \/ PrimaryDefer
    \/ PrimarySkip
    \/ PrimaryBuild
    \/ PrimaryRaise
    \/ PrimaryDone
    \/ PrimaryFinally
    \/ CrossCheck
    \/ CrossStart
    \/ CrossTargetsDone
    \/ CrossSkip
    \/ CrossBuild
    \/ CrossRaise
    \/ CrossDone
    \/ CrossFinally
    \/ LocalStart
    \/ LocalSkip
    \/ LocalBuild
    \/ LocalDone
    \/ Summary

Spec == Init /\ [][Next]_vars


\* ------------------------------------------------- actions: both drivers
\* the containerized driver on any manifests and flags, no package with the
\* rust_cross_compile marker
InitPair ==
    /\ control_files = <<>>
    /\ driver = "docker"
    /\ manifests \in RunGraphs
    /\ native \in NativePlatforms
    /\ platform \in Platforms
    /\ skip_existing \in BOOLEAN
    /\ dry_run \in BOOLEAN
    /\ single_package \in {NoPackage, 0} \cup (1..RunPkgs)
    /\ timeout_seconds = MaxTimeout
    /\ output_file = FALSE
    /\ FreshButMarkers
    /\ markers = [p \in Pkgs |-> "no"]

\* build-packages-local.py is run with the manifests, flags and disk that
\* build-packages.py was run with
OtherDriver ==
    /\ pc = "exit"
    /\ driver = "docker"
    /\ ~first_run.done
    /\ first_run' = [done |-> TRUE, build_order |-> build_order,
                     succeeded |-> succeeded, failed |-> failed, skipped |-> skipped,
                     decisions |-> Decisions(builds), exit_code |-> exit_code,
                     start_failures |-> start_failures]
    /\ driver' = "local"
    /\ pc' = "build_graph"
    /\ graph' = <<>>
    /\ in_degree_reverse' = <<>>
    /\ queue' = <<>>
    /\ result' = <<>>
    /\ build_order' = <<>>
    /\ idx' = 0
    /\ container_id' = 0
    /\ cross_container_id' = 0
    /\ succeeded' = <<>>
    /\ failed' = <<>>
    /\ skipped' = <<>>
    /\ exit_code' = 0 - 1
    /\ last_check' = NoCheck
    /\ starts' = 0
    /\ start_failures' = 0
    /\ stop_calls' = <<>>
    /\ stop_failures' = {}
    /\ builds' = <<>>
    /\ summary' = FALSE
    /\ diagnostic' = <<>>
    /\ UNCHANGED <<parsevars, buildvars, manifests, native, platform, skip_existing,
                   dry_run, single_package, prev_result, rust_packages,
                   rust_packages_in_order, target_platforms, cross_platform, exc,
                   markers>>

\* LocalSkip on the disk the containerized driver saw
LocalSkipAgain == LocalSkip /\ SameAnswers'

\* LocalBuild with the build results the containerized driver got
LocalBuildAgain == LocalBuild /\ SameAnswers'

NextPair ==
    \/ BuildDependencyGraph
    \/ TopoInit
    \/ TopoLoop
    \/ TopoCycleExit
    \/ TopoReturn
    \/ SingleUnknown
    \/ SingleFilter
    \/ DryRunExit
    \/ StartContainer
    \/ PrimarySkip
    \/ PrimaryBuild
    \/ PrimaryDone
    \/ PrimaryFinally
    \/ CrossCheck
    \/ OtherDriver
    \/ LocalStart
    \/ LocalSkipAgain
    \/ LocalBuildAgain
    \/ LocalDone
    \/ Summary

SpecPair == InitPair /\ [][NextPair]_vars

\* ------------------------------------------------- actions: parsing
\* the control files of SpecParse: a Source: field or none, plain or -dev tokens
InitParse ==
    /\ control_files \in
          ControlFiles(1..ParsePkgs,
                       RawTokens((1..ParsePkgs) \cup {Gcc}, 1, {FALSE}), ParseDeps)
    /\ driver = "docker"
    /\ manifests = <<>>
    /\ native = DockerPlatform("arm64")
    /\ platform = "arm64"
    /\ skip_existing = TRUE
    /\ dry_run = FALSE
    /\ single_package = NoPackage
    /\ timeout_seconds = MaxTimeout
    /\ output_file = FALSE
    /\ Fresh

\* one control file with a Source: field and every kind of token (SpecToken)
InitToken ==
    /\ control_files \in
          {f \in ControlFiles({1}, RawTokens({1, Gcc, Zlib1g}, MaxDev, BOOLEAN), MaxDeps) :
              f[1].source}
    /\ driver = "docker"
    /\ manifests = <<>>
    /\ native = DockerPlatform("arm64")
    /\ platform = "arm64"
    /\ skip_existing = TRUE
    /\ dry_run = FALSE
    /\ single_package = NoPackage
    /\ timeout_seconds = MaxTimeout
    /\ output_file = FALSE
    /\ Fresh

\* build_dependency_graph over the control files, parse_control_file included
ParseControlFiles ==
    /\ pc = "build_graph"
    /\ control_files # <<>>
    /\ parsed' = [d \in DOMAIN control_files |-> ParseControlFile(d, control_files[d])]
    /\ manifests' = GraphOf(parsed')
    /\ graph' = manifests'
    /\ pc' = "topo_init"
    /\ UNCHANGED <<first_run, buildvars, diagnostic, control_files, first_parsed, driver, native, platform,
                   skip_existing, dry_run, single_package, in_degree_reverse, queue,
                   result, prev_result, passvars, exit_code>>

\* every control file is written again with the parsed dependencies as its
\* Build-Depends, and the script is run again
Reparse ==
    /\ pc = "topo_init"
    /\ first_parsed = <<>>
    /\ first_parsed' = parsed
    /\ control_files' = [d \in DOMAIN control_files |->
                            [control_files[d] EXCEPT !.build_depends = parsed[d].deps]]
    /\ pc' = "build_graph"
    /\ UNCHANGED <<first_run, buildvars, diagnostic, parsed, argvars, sortvars, prev_result, passvars,
                   exit_code>>

NextParse ==
    \/ ParseControlFiles
    \/ TopoInit
    \/ TopoLoop
    \/ TopoCycleExit
    \/ TopoReturn
    \/ Rerun

SpecParse == InitParse /\ [][NextParse]_vars

NextToken ==
    \/ ParseControlFiles
    \/ Reparse

SpecToken == InitToken /\ [][NextToken]_vars

\* ------------------------------------------------- actions: build_package
\* cmd starts with timeout_cmd, str(timeout_seconds) in build-packages.py only; in
\* build-packages-local.py that line is commented out and cmd is bash -c alone
TimeoutEnforced(d) == d = "docker"

\* if returncode == 0 / elif returncode in (124, 143) / else
Classify(rc) ==
    IF rc = 0 THEN "success"
    ELSE IF rc \in {124, 143} THEN "timeout"
    ELSE "nonzero"

InitBuild ==
    /\ control_files = <<>>
    /\ driver \in {"docker", "local"}
    /\ manifests = [p \in Pkgs |-> {}]
    /\ native = DockerPlatform("arm64")
    /\ platform = "arm64"
    /\ skip_existing = TRUE
    /\ dry_run = FALSE
    /\ single_package = NoPackage
    /\ timeout_seconds \in 1..MaxTimeout
    /\ output_file \in BOOLEAN
    /\ Fresh

\* subprocess.run / subprocess.Popen starts the command
BuildLaunch ==
    /\ bp.pc = "idle"
    /\ bp' = [bp EXCEPT !.pc = "running"]
    /\ UNCHANGED <<first_run, parsevars, argvars, sortvars, prev_result, passvars, pc, exit_code, diagnostic,
                   timeout_seconds, output_file>>

\* except Exception: the log file or the command could not be opened or started
BuildLaunchError ==
    /\ bp.pc = "idle"
    /\ bp' = [bp EXCEPT !.pc = "returned", !.report = "error", !.ret = FALSE]
    /\ UNCHANGED <<first_run, parsevars, argvars, sortvars, prev_result, passvars, pc, exit_code, diagnostic,
                   timeout_seconds, output_file>>

\* the build script ends by itself with some exit status
ChildExits ==
    /\ bp.pc = "running"
    /\ \E rc \in ReturnCodes : bp' = [bp EXCEPT !.pc = "exited", !.returncode = rc]
    /\ UNCHANGED <<first_run, parsevars, argvars, sortvars, prev_result, passvars, pc, exit_code, diagnostic,
                   timeout_seconds, output_file>>

\* one unit of time passes while the caller waits for the command
Tick ==
    /\ bp.pc = "running"
    /\ bp.elapsed < Horizon
    /\ TimeoutEnforced(driver) => bp.elapsed < timeout_seconds
    /\ bp' = [bp EXCEPT !.elapsed = bp.elapsed + 1]
    /\ UNCHANGED <<first_run, parsevars, argvars, sortvars, prev_result, passvars, pc, exit_code, diagnostic,
                   timeout_seconds, output_file>>

\* timeout(1) ends the command after timeout_seconds with status 124
TimeoutKills ==
    /\ bp.pc = "running"
    /\ TimeoutEnforced(driver)
    /\ bp.elapsed = timeout_seconds
    /\ bp' = [bp EXCEPT !.pc = "exited", !.returncode = 124, !.killed = TRUE]
    /\ UNCHANGED <<first_run, parsevars, argvars, sortvars, prev_result, passvars, pc, exit_code, diagnostic,
                   timeout_seconds, output_file>>

\* the return code is classified and build_package returns
BuildReturn ==
    /\ bp.pc = "exited"
    /\ bp' = [bp EXCEPT !.pc = "returned", !.report = Classify(bp.returncode),
                        !.ret = (bp.returncode = 0)]
    /\ UNCHANGED <<first_run, parsevars, argvars, sortvars, prev_result, passvars, pc, exit_code, diagnostic,
                   timeout_seconds, output_file>>

NextBuild ==
    \/ BuildLaunch
    \/ BuildLaunchError
    \/ ChildExits
    \/ Tick
    \/ TimeoutKills
    \/ BuildReturn

SpecBuild == InitBuild /\ [][NextBuild]_vars

\* ------------------------------------------------- vocabulary of the properties
\* the edges of the manifests restricted to packages that have a manifest
KnownEdges(m) == [p \in DOMAIN m |-> m[p] \cap DOMAIN m]

RECURSIVE ReachN(_, _, _)
ReachN(g, S, k) ==
    IF k = 0 THEN S ELSE ReachN(g, S \cup UNION {g[x] : x \in S}, k - 1)

\* every package p depends on, directly or through other packages
DependsOn(g, p) == ReachN(g, g[p], Cardinality(DOMAIN g))

HasCycle(g) == \E p \in DOMAIN g : p \in DependsOn(g, p)

IsPermutationOf(s, S) == Len(s) = Cardinality(S) /\ Range(s) = S

DepsFirst(s, g) ==
    \A p \in DOMAIN g : \A d \in g[p] :
        \E i, j \in DOMAIN s : s[i] = d /\ s[j] = p /\ i < j

\* packages not yet in the order whose dependencies are all in it
Ready(res, g) == {p \in DOMAIN g \ Range(res) : g[p] \subseteq Range(res)}

\* packages on a dependency cycle
CycleMembers(g) == {p \in DOMAIN g : p \in DependsOn(g, p)}

\* S together with the packages all of whose (at least one) dependencies are in S,
\* repeated k times
RECURSIVE OnlyOn(_, _, _)
OnlyOn(g, S, k) ==
    IF k = 0 THEN S
    ELSE OnlyOn(g, S \cup {p \in DOMAIN g : g[p] # {} /\ g[p] \subseteq S}, k - 1)

\* cycle members and the packages that depend on one, directly or through others
BlockedByCycle(g) ==
    {p \in DOMAIN g : p \in CycleMembers(g) \/ DependsOn(g, p) \cap CycleMembers(g) # {}}

CycleReported == pc = "exit" /\ DOMAIN diagnostic # {}

\* directories whose control file has a Source: field
Named == {d \in DOMAIN control_files : control_files[d].source}

\* the name of a token without its version constraint
TokenName(t) == [base |-> t.base, devs |-> t.devs]

\* the tokens of S outside the system set, each without its version constraint
\* and without its last "-dev"
OnceNormalised(S) ==
    {[base |-> t.base, devs |-> IF t.devs > 0 THEN t.devs - 1 ELSE 0, ver |-> FALSE] :
        t \in {x \in S : TokenName(x) \notin SystemPackages}}

\* a parsed dependency that parsing again leaves as it is
Stable(d) == d.devs = 0 /\ TokenName(d) \notin SystemPackages

\* a is b or comes before b when compared position by position
LexLeq(a, b) ==
    \/ a = b
    \/ \E i \in DOMAIN a \cap DOMAIN b :
          /\ \A j \in 1..(i - 1) : a[j] = b[j]
          /\ a[i] < b[i]

\* the orders of all packages of g that place every package after its dependencies
TopologicalOrders(g) == {s \in Perms(DOMAIN g) : DepsFirst(s, g)}

IsPrefix(s, t) == Len(s) <= Len(t) /\ s = SubSeq(t, 1, Len(s))

SortReturned == pc = "single_filter"
SortEnded == pc \in {"single_filter", "exit"}

PrimaryBuildIdx == {i \in DOMAIN builds : builds[i].pass = "primary"}
CrossBuildIdx == {i \in DOMAIN builds : builds[i].pass = "cross"}
PrimaryFailed == {i \in DOMAIN failed : failed[i][2] = ""}
IsNative == native = DockerPlatform(platform)
Finished == pc = "exit" /\ summary
InPrimaryPass == pc \in {"primary_loop", "primary_finally", "local_loop"}
Processed == Range(succeeded) \cup Range(failed) \cup Range(skipped)

\* the packages of list are in the order in which build_order holds them
InBuildOrder(list) ==
    \A i, j \in DOMAIN list :
        i < j => Pos(build_order, list[i][1]) < Pos(build_order, list[j][1])

\* ------------------------------------------------- C1
\* C1: for every acyclic dependency graph (edges restricted to known packages)
\* topological_sort returns, and the returned sequence holds every package exactly
\* once with every dependency strictly before the package that declares it.
C1_TopologicalOrder ==
    (SortEnded /\ ~HasCycle(KnownEdges(manifests))) =>
        /\ SortReturned
        /\ IsPermutationOf(build_order, DOMAIN manifests)
        /\ DepsFirst(build_order, KnownEdges(manifests))

\* an acyclic graph whose dependencies force an order other than the name order
C1_Witness ==
    /\ SortReturned
    /\ ~HasCycle(KnownEdges(manifests))
    /\ build_order # Sorted(build_order)

\* ------------------------------------------------- C2
\* C2: the build order is deterministic: a second run over the same manifests,
\* with the node set, the initial ready set and every set of dependents iterated
\* in any order, returns the sequence the first run returned.
C2_Deterministic ==
    (SortReturned /\ prev_result # <<>>) => build_order = prev_result

\* a second run has returned over a graph in which several packages are ready at once
C2_Witness ==
    /\ SortReturned
    /\ prev_result # <<>>
    /\ Cardinality({p \in DOMAIN manifests : KnownEdges(manifests)[p] = {}}) >= 2
    /\ \E p \in DOMAIN manifests : KnownEdges(manifests)[p] # {}

\* ------------------------------------------------- C3
\* C3: when the dependency graph has a cycle the run is aborted before any build:
\* control never gets past topological_sort, no build is invoked, no container
\* start is attempted, and the process exits with status 1, in every mode.
C3_CycleAborts ==
    HasCycle(KnownEdges(manifests)) =>
        /\ pc \in {"build_graph", "topo_init", "topo_loop", "exit"}
        /\ builds = <<>>
        /\ starts = 0
        /\ start_failures = 0
        /\ ~summary
        /\ pc = "exit" => exit_code = 1

\* X depends on Y, Y depends on X: the run has exited, under --dry-run and --package
C3_Witness ==
    /\ pc = "exit"
    /\ manifests[1] = {2}
    /\ manifests[2] = {1}
    /\ dry_run
    /\ single_package = 1
    /\ exit_code = 1

\* ------------------------------------------------- C4
\* C4: fail-fast in the primary pass: a failed build is the last build the primary
\* pass invokes, the primary pass records at most one failed package, and no
\* package after it in the build order is built, skipped or recorded.
C4_PrimaryFailFast ==
    /\ \A i \in PrimaryBuildIdx : ~builds[i].ok => \A j \in PrimaryBuildIdx : j <= i
    /\ Cardinality(PrimaryFailed) <= 1
    /\ \A i \in PrimaryFailed :
          LET k == Pos(build_order, failed[i][1]) IN
          \A j \in DOMAIN build_order :
             j > k =>
                /\ Entry(build_order[j]) \notin Range(succeeded) \cup Range(skipped)
                /\ \A b \in PrimaryBuildIdx : builds[b].pkg # build_order[j]

\* the first of two packages failed in the container and the run is over
C4_Witness ==
    /\ pc = "exit"
    /\ driver = "docker"
    /\ Len(build_order) = 2
    /\ failed # <<>>
    /\ failed[1] = Entry(build_order[1])

\* ------------------------------------------------- C5
\* C5: fail-fast in the cross-compile pass: no build is invoked in a cross-compile
\* pass after a build of that pass has failed.
C5_CrossFailFast ==
    \A i, j \in CrossBuildIdx :
        (i < j /\ builds[i].container = builds[j].container) => builds[i].ok

\* ------------------------------------------------- C6
\* C6: when a primary-pass build failed, no cross-compile container is started and
\* no cross-compile build is invoked.
C6_NoSecondaryAfterPrimaryFailure ==
    PrimaryFailed # {} =>
        /\ CrossBuildIdx = {}
        /\ cross_container_id = 0
        /\ pc \notin {"cross_loop", "cross_finally"}

\* ------------------------------------------------- C7
\* C7: stop is invoked exactly once for every successful container start, on every
\* way out of a pass (loop exhausted, fail-fast break, exception), and never for
\* a start that failed.
C7_StopOncePerStart ==
    /\ \A i \in DOMAIN stop_calls : stop_calls[i] \in 1..starts
    /\ \A c \in 1..starts : Count(stop_calls, c) <= 1
    /\ pc \in {"cross_check", "cross_start", "summary", "exit"} =>
          \A c \in 1..starts : Count(stop_calls, c) = 1
    /\ pc \in {"primary_loop", "primary_finally"} => Alive = {container_id}
    /\ pc \in {"cross_loop", "cross_finally"} => Alive = {cross_container_id}

\* the primary pass broke off on a failed build, the cross-compile pass was left by
\* an exception, and the process has exited
C7_Witness ==
    /\ pc = "exit"
    /\ starts = 2
    /\ PrimaryFailed # {}
    /\ exc

\* ------------------------------------------------- C8
\* C8: with skip-existing enabled a package is skipped for an architecture exactly
\* when every one of its binary packages has a matching .deb for that architecture.
C8_SkipIffEveryArtifactExists ==
    last_check.pkg # 0 => (last_check.skip <=> last_check.bins \subseteq last_check.found)

\* ------------------------------------------------- C9
\* C9: with skip-existing disabled the existence filter is never consulted: nothing
\* is skipped except by deferral, and every package a pass has reached and not
\* deferred has had its build invoked.
C9_ForceRebuild ==
    ~skip_existing =>
        /\ last_check = NoCheck
        /\ Range(skipped) = {Entry(p) : p \in Range(rust_packages)}
        /\ pc \in {"primary_loop", "local_loop"} =>
              \A j \in 1..(idx - 1) :
                 \/ Entry(build_order[j]) \in Range(skipped)
                 \/ \E b \in PrimaryBuildIdx : builds[b].pkg = build_order[j]
        /\ pc = "cross_loop" =>
              \A j \in 1..(idx - 1) :
                 \E b \in CrossBuildIdx :
                    /\ builds[b].pkg = rust_packages_in_order[j]
                    /\ builds[b].platform = cross_platform
        /\ (Finished /\ failed = <<>>) =>
              \A p \in Range(build_order) :
                 \/ Entry(p) \in Range(skipped)
                 \/ \E b \in PrimaryBuildIdx : builds[b].pkg = p

\* --rebuild-existing: both packages built in the container, then cross-compiled
C9_Witness ==
    /\ Finished
    /\ ~skip_existing
    /\ Cardinality(PrimaryBuildIdx) = 2
    /\ Cardinality(CrossBuildIdx) = 2

C11_MarkedNeverBuiltWhenForeign ==
    (driver = "docker" /\ ~IsNative) =>
        /\ \A b \in DOMAIN builds : markers[builds[b].pkg] # "yes"
        /\ last_check.pkg # 0 => markers[last_check.pkg] # "yes"
        /\ \A j \in DOMAIN build_order :
              (markers[build_order[j]] = "yes" /\ pc \notin {"dry_run", "single_filter"}) =>
                 /\ build_order[j] \in Range(rust_packages)
                 /\ Entry(build_order[j]) \in Range(skipped)
                 /\ pc = "primary_loop" => idx > j

\* the first package was deferred and the loop went on to build the second
C11_Witness ==
    /\ driver = "docker"
    /\ ~IsNative
    /\ Len(build_order) = 2
    /\ rust_packages = <<build_order[1]>>
    /\ \E b \in DOMAIN builds : builds[b].pkg = build_order[2]

\* ------------------------------------------------- C12
\* C12: when the target is not the host's platform no secondary pass runs, every
\* deferred package is in skipped and none is in failed, and a run in which no
\* build failed exits with status 0 whatever was deferred.
C12_DeferredAreSkippedNotFailed ==
    ~IsNative =>
        /\ pc \notin {"cross_start", "cross_loop", "cross_finally"}
        /\ CrossBuildIdx = {}
        /\ starts <= 1
        /\ \A p \in Range(rust_packages) :
              /\ Entry(p) \in Range(skipped)
              /\ \A i \in DOMAIN failed : failed[i][1] # p
        /\ (Finished /\ \A b \in DOMAIN builds : builds[b].ok) => exit_code = 0

\* every package of the run was deferred and the run ended with status 0
C12_Witness ==
    /\ Finished
    /\ ~IsNative
    /\ Len(rust_packages) = 2
    /\ exit_code = 0

\* ------------------------------------------------- C13
\* C13: the exit status is 0 only after the summary of a run without a failed build
\* or after a dry-run, and it is 1 whenever a build failed, in either pass, or the
\* package named by --package is not in the graph.
C13_ExitStatus ==
    pc = "exit" =>
        /\ exit_code \in {0, 1}
        /\ (\E b \in DOMAIN builds : ~builds[b].ok) => exit_code = 1
        /\ (single_package # NoPackage /\ single_package \notin DOMAIN manifests)
              => exit_code = 1
        /\ (summary /\ \A b \in DOMAIN builds : builds[b].ok) => exit_code = 0
        /\ (dry_run /\ ~HasCycle(KnownEdges(manifests))
               /\ single_package \in {NoPackage} \cup DOMAIN manifests) => exit_code = 0
        /\ exit_code = 0 => (~exc /\ failed = <<>> /\ (summary \/ dry_run))

\* the primary pass succeeded, a cross-compile build failed, the status is 1
C13_Witness ==
    /\ Finished
    /\ exit_code = 1
    /\ PrimaryFailed = {}
    /\ \E b \in CrossBuildIdx : ~builds[b].ok

\* ------------------------------------------------- C14
\* C14: with --dry-run on an acyclic graph (and a known package if one is named)
\* the order is computed, no build is invoked, no container start is attempted
\* and the process exits with status 0.
C14_DryRunBuildsNothing ==
    dry_run =>
        /\ builds = <<>>
        /\ starts = 0
        /\ start_failures = 0
        /\ pc \in {"build_graph", "topo_init", "topo_loop", "single_filter", "dry_run",
                   "exit"}
        /\ (pc = "exit" /\ ~HasCycle(KnownEdges(manifests))
               /\ single_package \in {NoPackage} \cup DOMAIN manifests) =>
              /\ exit_code = 0
              /\ build_order # <<>>
              /\ DepsFirst(result, KnownEdges(manifests))

\* a dry run over two packages, one depending on the other, has exited
C14_Witness ==
    /\ dry_run
    /\ pc = "exit"
    /\ exit_code = 0
    /\ Len(build_order) = 2
    /\ \E p \in DOMAIN manifests : manifests[p] # {}

\* ------------------------------------------------- C15
\* C15: --package with a name that is not a node of the graph is fatal: status 1,
\* before any build is invoked and before any container start is attempted.
C15_UnknownPackageFatal ==
    (single_package # NoPackage /\ single_package \notin DOMAIN manifests) =>
        /\ builds = <<>>
        /\ starts = 0
        /\ start_failures = 0
        /\ pc \in {"build_graph", "topo_init", "topo_loop", "single_filter", "exit"}
        /\ pc = "exit" => exit_code = 1

\* the graph is acyclic, the named package is unknown, the run has exited
C15_Witness ==
    /\ pc = "exit"
    /\ single_package = 0
    /\ ~HasCycle(KnownEdges(manifests))
    /\ Len(build_order) = 2
    /\ exit_code = 1

\* ------------------------------------------------- C16
\* C16: every fatal exit (dependency cycle, unknown package, container launch
\* failure, failed build) is preceded by the summary of succeeded, skipped and
\* failed packages.
C16_FatalExitsPrintSummary ==
    (pc = "exit" /\ exit_code = 1 /\ ~exc) => summary

\* ------------------------------------------------- C17
\* C17: every build invocation is bounded by the per-package timeout, in both
\* drivers: the command never runs for longer than timeout_seconds.
C17_BuildBoundedByTimeout ==
    bp.pc = "running" => bp.elapsed <= timeout_seconds

\* ------------------------------------------------- C18
\* C18: once the ordering has filtered the graph, every element of graph[P] is a
\* package that has a manifest, the graph has exactly the manifests' edges between
\* packages, and the run is only ever aborted for a cycle among packages, never
\* for a dependency token without a manifest.
C18_EdgeEndpointsAreNodes ==
    pc \notin {"build_graph", "topo_init"} =>
        /\ DOMAIN graph = DOMAIN manifests
        /\ \A P \in DOMAIN graph : graph[P] \subseteq DOMAIN manifests
        /\ graph = KnownEdges(manifests)
        /\ exit_code = 1 => HasCycle(KnownEdges(manifests))

C18_Witness ==
    /\ SortReturned
    /\ \E P \in DOMAIN manifests : 0 \in manifests[P] /\ graph[P] # {}

\* ------------------------------------------------- C19
\* C19: every iteration of the ordering loop appends the smallest package of the
\* ready set of that iteration (the queue holds exactly the packages not yet
\* ordered whose dependencies are all ordered), so of two packages that are ready
\* at the same time the smaller is emitted first.
C19_SmallestReadyFirst ==
    [][(pc = "topo_loop" /\ Len(result') = Len(result) + 1) =>
        LET node == result'[Len(result')]
        IN /\ Range(queue) = Ready(result, graph)
           /\ node \in Ready(result, graph)
           /\ \A q \in Ready(result, graph) : node <= q
           /\ \A i, j \in DOMAIN result' :
                (i < j /\ graph[result'[j]] \subseteq {result'[k] : k \in 1..(i - 1)})
                    => result'[i] < result'[j]]_vars

C19_Witness ==
    /\ pc = "topo_loop"
    /\ Len(result) >= 2
    /\ graph[result[2]] # {}
    /\ \E q \in Range(queue) : graph[q] = {} /\ result[2] < q

\* ------------------------------------------------- C20
\* C20 as stated: the packages named in the cycle report are exactly the cycle
\* members together with the packages that depend only on cycle members (or on
\* such packages).
C20_ReportedDependOnlyOnCycles ==
    CycleReported =>
        DOMAIN diagnostic =
            OnlyOn(KnownEdges(manifests), CycleMembers(KnownEdges(manifests)), NumPkgs)

\* C20 amended: the packages named in the cycle report are exactly the packages
\* left out of the order, which are the cycle members together with every package
\* that depends on a cycle member directly or through other packages, whatever
\* else it depends on; a package with no path to a cycle is not reported.
C20_ReportedAreBlockedByCycle ==
    CycleReported =>
        /\ DOMAIN diagnostic = BlockedByCycle(KnownEdges(manifests))
        /\ DOMAIN diagnostic = DOMAIN manifests \ Range(result)

C20_Witness ==
    /\ CycleReported
    /\ \E p \in DOMAIN diagnostic :
          /\ p \notin CycleMembers(KnownEdges(manifests))
          /\ graph[p] \cap Range(result) # {}

C22_SequentialPrefix ==
    InPrimaryPass =>
        LET k == Len(succeeded) + Len(failed) + Len(skipped)
        IN /\ k <= Len(build_order)
           /\ Processed = {Entry(build_order[i]) : i \in 1..k}
           /\ Cardinality(Processed) = k
           /\ Range(succeeded) \cap Range(failed) = {}
           /\ Range(succeeded) \cap Range(skipped) = {}
           /\ Range(failed) \cap Range(skipped) = {}
           /\ InBuildOrder(succeeded) /\ InBuildOrder(failed) /\ InBuildOrder(skipped)
           /\ \A i, j \in DOMAIN builds :
                i < j => Pos(build_order, builds[i].pkg) < Pos(build_order, builds[j].pkg)
           /\ k \in {idx - 1, idx}
           /\ k = idx => (failed # <<>> /\ failed[Len(failed)] = Entry(build_order[idx]))

C22_Witness ==
    /\ InPrimaryPass
    /\ Len(build_order) = RunPkgs
    /\ idx = RunPkgs
    /\ Len(succeeded) = 1
    /\ Len(skipped) = RunPkgs - 2
    /\ Len(failed) = 1

\* ------------------------------------------------- C23
\* C23: within one run build_package is invoked at most once for a given package
\* and target architecture, whatever the outcome of that invocation, and a package
\* built in the primary pass is built in the secondary pass only for a target
\* other than the run's.
C23_NoRetries ==
    /\ \A i, j \in DOMAIN builds :
          (builds[i].pkg = builds[j].pkg /\ builds[i].platform = builds[j].platform)
              => i = j
    /\ \A i \in PrimaryBuildIdx : builds[i].platform = platform
    /\ \A j \in CrossBuildIdx : builds[j].platform # platform

C23_Witness ==
    \E i \in PrimaryBuildIdx, j \in CrossBuildIdx :
        /\ builds[i].pkg = builds[j].pkg
        /\ ~builds[i].ok
        /\ ~builds[j].ok
        /\ pc = "exit"

\* ------------------------------------------------- C24
\* C24: when build_package has returned, a command that exited 0 is reported as a
\* success, a command cut off by the timeout is reported as a timeout, a launch
\* error is reported as neither, and a timeout is reported only for a command that
\* was cut off by the timeout.
C24_OutcomeClassification ==
    bp.pc = "returned" =>
        /\ bp.returncode = 0 => (bp.ret /\ bp.report = "success")
        /\ bp.ret => bp.returncode = 0
        /\ bp.killed => (bp.report = "timeout" /\ ~bp.ret)
        /\ bp.report = "error" => (bp.returncode = 0 - 1 /\ ~bp.ret)
        /\ bp.report = "timeout" => bp.killed

\* ------------------------------------------------- C25
\* C25: when the container of a pass could not be started, no build of that pass
\* is invoked and the pass counts as failed, so the run ends with status 1 - for
\* the primary pass and for a cross-compile pass alike.
C25_LaunchErrorFailsPass ==
    start_failures > 0 =>
        /\ container_id = 0 => builds = <<>>
        /\ container_id # 0 => CrossBuildIdx = {}
        /\ pc = "exit" => exit_code = 1

\* ------------------------------------------------- C26
\* C26: in every iteration that does not defer its package P, P is skipped exactly
\* when skip-existing is on and the existence test made in that iteration, for P's
\* own binary packages and the target of the pass, found a .deb file; otherwise
\* its build is invoked. What was built, skipped, deferred or failed before does
\* not enter the decision.
C26_SkipDecisionIsLocal ==
    [][(/\ pc \in {"primary_loop", "local_loop", "cross_loop"}
        /\ (idx' # idx \/ builds' # builds)
        /\ rust_packages' = rust_packages) =>
          LET P == IF pc = "cross_loop"
                   THEN rust_packages_in_order[idx] ELSE build_order[idx]
              T == IF pc = "cross_loop" THEN cross_platform ELSE platform
              isSkipped == builds' = builds
          IN /\ isSkipped <=> (skip_existing /\ last_check'.found # {})
             /\ isSkipped => last_check'.skip
             /\ ~isSkipped =>
                   (builds' = Append(builds, builds'[Len(builds')])
                    /\ builds'[Len(builds')].pkg = P
                    /\ builds'[Len(builds')].platform = T)
             /\ skip_existing =>
                   /\ last_check'.pkg = P
                   /\ last_check'.platform = T
                   /\ last_check'.found \subseteq last_check'.bins
             /\ ~skip_existing => last_check' = last_check]_vars

\* a package was skipped although a package it depends on was built in this run
C26_Witness ==
    \E i \in DOMAIN builds, s \in DOMAIN skipped :
        /\ builds[i].ok
        /\ builds[i].pkg \in graph[skipped[s][1]]
        /\ skipped[s][1] \notin Range(rust_packages)
        /\ last_check.pkg = skipped[s][1]

\* ------------------------------------------------- C27
\* C27: a control file without a Source: field yields no node and no edge and does
\* not stop the run: the graph has exactly the packages of the files that have
\* one, each with its parsed dependencies, no edge leads to a directory whose
\* file has none, the only abort is a cycle among the named packages, and the
\* order returned holds every named package after its dependencies.
C27_NamelessManifestSkipped ==
    pc # "build_graph" =>
        /\ DOMAIN manifests = Named
        /\ \A d \in DOMAIN control_files \ Named :
              parsed[d] = [package_name |-> NoPackage, deps |-> {}]
        /\ \A d \in Named :
              /\ parsed[d].package_name = d
              /\ parsed[d].deps = UNION {ParseDep(t) : t \in control_files[d].build_depends}
              /\ manifests[d] = {GraphToken(dep) : dep \in parsed[d].deps}
        /\ pc # "topo_init" => \A p \in DOMAIN graph : graph[p] \subseteq Named
        /\ exit_code = 1 => HasCycle(KnownEdges(manifests))
        /\ SortReturned =>
              /\ IsPermutationOf(build_order, Named)
              /\ DepsFirst(build_order, KnownEdges(manifests))

C27_Witness ==
    /\ SortReturned
    /\ build_order # <<>>
    /\ \E d \in DOMAIN control_files \ Named, p \in Named :
          \E t \in control_files[p].build_depends : t.base = d /\ t.devs = 0

\* ------------------------------------------------- C28
\* C28 as stated: parsing ignores the version constraint, drops the tokens of the
\* system set, strips one "-dev" from the others, and parsing the parsed
\* dependencies again leaves every one of them unchanged.
C28_NormalisationIdempotent ==
    pc = "topo_init" =>
        IF first_parsed = <<>>
        THEN parsed[1].deps = OnceNormalised(control_files[1].build_depends)
        ELSE parsed = first_parsed

\* C28 amended: parsing ignores the version constraint, drops the tokens of the
\* system set and strips exactly one "-dev" from the others; parsing the parsed
\* dependencies again does the same to them, so it leaves unchanged exactly those
\* that neither end in "-dev" nor are in the system set.
C28_NormalisedOncePerParse ==
    pc = "topo_init" =>
        IF first_parsed = <<>>
        THEN parsed[1].deps = OnceNormalised(control_files[1].build_depends)
        ELSE /\ parsed[1].deps = OnceNormalised(first_parsed[1].deps)
             /\ parsed = first_parsed <=> \A d \in first_parsed[1].deps : Stable(d)

C28_Witness ==
    /\ pc = "topo_init"
    /\ first_parsed # <<>>
    /\ \E d, e \in first_parsed[1].deps :
          /\ Stable(d)
          /\ e.devs > 0
          /\ d \in parsed[1].deps
          /\ e \notin parsed[1].deps

\* ------------------------------------------------- C29
\* C29: for every acyclic graph the sequence topological_sort returns is a valid
\* topological order and is the least of all valid topological orders of the
\* graph when orders are compared position by position on the package names.
C29_LexicographicallyLeast ==
    SortReturned =>
        /\ build_order \in TopologicalOrders(KnownEdges(manifests))
        /\ \A s \in TopologicalOrders(KnownEdges(manifests)) : LexLeq(build_order, s)

\* several valid orders exist and the least one is not the packages by name
C29_Witness ==
    /\ SortReturned
    /\ Cardinality(TopologicalOrders(KnownEdges(manifests))) >= 2
    /\ build_order # Sorted(build_order)

\* ------------------------------------------------- C30
\* C30: in a primary pass over the full build order, when build_package is invoked
\* for a package, every dependency of it in the graph stands earlier in the build
\* order and is recorded as succeeded or skipped, and none is recorded as failed;
\* a dependency that was built was built before and with success.
C30_DependenciesProcessedFirst ==
    single_package = NoPackage =>
        \A b \in PrimaryBuildIdx : \A d \in graph[builds[b].pkg] :
            /\ Pos(build_order, d) < Pos(build_order, builds[b].pkg)
            /\ Entry(d) \in Range(succeeded) \cup Range(skipped)
            /\ Entry(d) \notin Range(failed)
            /\ \A a \in PrimaryBuildIdx : builds[a].pkg = d => (a < b /\ builds[a].ok)

\* a package was built after a dependency of it had been deferred
C30_Witness ==
    /\ single_package = NoPackage
    /\ \E b \in PrimaryBuildIdx : \E d \in graph[builds[b].pkg] :
          /\ Entry(d) \in Range(skipped)
          /\ d \in Range(rust_packages)

\* ------------------------------------------------- C31
\* C31: at most one container is up at any moment of a run, the loop of a pass
\* invokes its builds in a container that is up, and no container is up when the
\* process has exited.
C31_OneEnvironmentAlive ==
    /\ Cardinality(Running) <= 1
    /\ (driver = "docker" /\ pc = "primary_loop") => container_id \in Running
    /\ pc = "cross_loop" => cross_container_id \in Running
    /\ pc = "exit" => Running = {}

\* ------------------------------------------------- C32
\* C32: topological_sort terminates on every graph, cyclic or not: once started it
\* reaches its return or its cycle exit; no package is twice in the result or in
\* the queue or in both, the packages that have entered the queue are exactly
\* those whose remaining-dependency count is 0, and no count is negative.
C32_SortTerminates ==
    /\ [](pc \notin {"build_graph", "topo_init"} =>
            /\ Cardinality(Range(result)) = Len(result)
            /\ Cardinality(Range(queue)) = Len(queue)
            /\ Range(queue) \cap Range(result) = {}
            /\ Len(result) <= Cardinality(DOMAIN graph)
            /\ \A n \in DOMAIN graph : in_degree_reverse[n] >= 0
            /\ Range(queue) \cup Range(result) =
                  {n \in DOMAIN graph : in_degree_reverse[n] = 0})
    /\ (pc = "topo_init") ~> SortEnded

\* the sort has ended on a graph with a self-dependency and a mutual dependency
C32_Witness ==
    /\ pc = "exit"
    /\ \E p \in DOMAIN graph : p \in graph[p]
    /\ \E p, q \in DOMAIN graph : p # q /\ p \in graph[q] /\ q \in graph[p]

\* ------------------------------------------------- C33
\* the run of the local driver agrees so far with the recorded run of the
\* containerized driver, and agrees in full once it has exited
SameRun ==
    /\ pc \in {"dry_run", "local_loop", "summary", "exit"} =>
          build_order = first_run.build_order
    /\ IsPrefix(succeeded, first_run.succeeded)
    /\ IsPrefix(failed, first_run.failed)
    /\ IsPrefix(skipped, first_run.skipped)
    /\ IsPrefix(Decisions(builds), first_run.decisions)
    /\ pc = "exit" =>
          /\ succeeded = first_run.succeeded
          /\ failed = first_run.failed
          /\ skipped = first_run.skipped
          /\ Decisions(builds) = first_run.decisions
          /\ exit_code = first_run.exit_code

\* C33 as stated: for the same manifests, flags, artifacts on disk and build
\* results, with no package carrying the marker, the local driver computes the
\* build order of the containerized driver, takes the same skip and build
\* decisions and ends with the same lists and the same exit status.
C33_DriversEquivalent == first_run.done => SameRun

\* C33: the same, for the runs in which the container of the containerized driver
\* started; when it does not start that driver exits with status 1 before its
\* first decision and the local driver, which starts nothing, goes on to build.
C33_DriversEquivalentOnceStarted ==
    (first_run.done /\ first_run.start_failures = 0) => SameRun

\* both drivers have skipped one package and failed on the next
C33_Witness ==
    /\ first_run.done
    /\ first_run.start_failures = 0
    /\ pc = "exit"
    /\ driver = "local"
    /\ skipped # <<>>
    /\ failed # <<>>
    /\ first_run.skipped = skipped
    /\ first_run.failed = failed
====
